---- MODULE Spec2Model ----
(***************************************************************************)
(* go-pogo/webapp: the task groups rungroup.Group, ctxgroup.Group,         *)
(* contextgroup.Group and waitgroup.Group, Shutdown / ShutdownTimeout, the *)
(* concurrent first use of a zero-value group, autoenv.Unmarshal, and      *)
(* webapp.New / Base.Shutdown / Base.CheckHealth.  One of them is modelled *)
(* at a time (kind);                                                       *)
(* the caller is one thread of control that calls Go and Wait, the         *)
(* submitted functions, the goroutine of rungroup's Wait, the goroutine of *)
(* signal.NotifyContext, the operating system (signals) and the owner of   *)
(* the parent context run concurrently with it.                            *)
(***************************************************************************)
EXTENDS Integers, Sequences, FiniteSets, TLC

\* ------------------------------------------------------------- bounds
MaxTasks == 2
MaxWaits == 2
MaxCallers == 2
MaxOpts == 2

Tasks == 1..MaxTasks
\* the goroutines that call into one group (or into autoenv) concurrently
Callers == 1..MaxCallers

\* ------------------------------------------------------------- values
\* An error value is a sequence of error identities: nil is the empty
\* sequence, a plain error has one identity, a multi error has several.
Nil == <<>>
\* context.Canceled, also the value of ctx.Err() of a cancelled context.
Canceled == <<0>>
\* context.DeadlineExceeded
DeadlineExceeded == <<-1>>
\* The error of the failing function submitted as number t.
TaskErr(t) == <<t>>
\* the messages ErrDuringRun and ErrDuringShutdown
ErrDuringRun == -2
ErrDuringShutdown == -3
ErrLoadEnvFile == -4
ErrApplyOptions == -7
ErrSetupServer == -8
\* the error of envfile.Load, the error of Decoder.Decode
EnvfileErr == <<-5>>
DecodeErr == <<-6>>
\* the error of option i, of base.server.With, and of the steps of Shutdown
OptErr(i) == <<-20 - i>>
SetupErr == <<-9>>
ServerShutdownErr == <<-10>>
ForceFlushErr == <<-11>>
TelemShutdownErr == <<-12>>
\* errors.Append: nil is dropped, two errors make a list of both
errors_Append(a, b) == a \o b

SIGINT == "SIGINT"
SIGTERM == "SIGTERM"
SIGUNUSED == "SIGUNUSED"
Signals == {SIGINT, SIGTERM, SIGUNUSED}
\* signals == nil in New / WithNotifyContext
NilSignals == {}

RECURSIVE Flatten(_)
Flatten(list) ==
    IF list = <<>> THEN <<>> ELSE Head(list) \o Flatten(Tail(list))

\* errlist.Join of the collected errors: nil when there are none, the error
\* itself when there is one, a multi error of all of them otherwise.
Join(list) ==
    IF Len(list) = 0 THEN Nil
    ELSE IF Len(list) = 1 THEN list[1]
    ELSE Flatten(list)

\* errors.Wrap(cause, msg): nil for a nil cause, otherwise an error that
\* carries the message and the cause.
Wrap(cause, msg) == IF cause = Nil THEN Nil ELSE <<msg>> \o cause

\* What the functions handed to Go do (the functions of the tests):
\*   "ok"      returns nil, at any time (before or after a cancellation)
\*   "fail"    returns its own error, at any time
\*   "waitErr" blocks on ctx.Done(), then returns ctx.Err()
Behaviours == {"ok", "fail", "waitErr"}

VARIABLES
    kind,        \* "rungroup" | "ctxgroup" | "contextgroup" | "waitgroup"
                 \* | "shutdown" | "firstUse" | "autoenv" | "base"
    ctor,        \* "zero" | "New" | "WithNotifyContext" | "WithTimeout"
                 \* | "Shutdown" | "ShutdownTimeout"
                 \* | "rungroup.Group" | "contextgroup.Group"
                 \* | "rungroup.New" (firstUse)
                 \* | "loadOnce" (autoenv)
                 \* | "webapp.New" | "Base.Shutdown"
                 \* | "Base.CheckHealth" (base)
    initDone,    \* initOnce has fired
    sigArg,      \* the signals the constructor was called with
    parentKind,  \* the context handed to the constructor: "background" |
                 \* "cancellable" | "cancelled" (done before the
                 \* constructor is called) | "nil" (ctxgroup.New(nil))
    parentDone,  \* the parent context is done
    watched,     \* the signals handed to signal.NotifyContext
    subscribed,  \* signal.Notify is registered and stop was not called
    sigCh,       \* a signal waits in the channel for the NotifyContext goroutine
    nctxDone,    \* the context of signal.NotifyContext is done
    ctxDone,     \* g.ctx is done
    ctxCause,    \* context.Cause(g.ctx)
    fn,          \* per submitted function: st, beh, ret, late, runs, ctx
    errs,        \* the error list of the errgroup, in order of arrival
    callerPc,    \* "idle" | "waiting" (inside Wait)
    waitResults, \* the results of the calls of Wait that returned, in order
    bg,          \* rungroup: the goroutine started by the k-th call of Wait
    timer,       \* the timer of context.WithTimeout:
                 \* "none" | "armed" | "fired" | "stopped"
    once,        \* the sync.Once (initOnce, loadOnce): mu, the holder of its
                 \* mutex (0: free); val, the value sync.OnceValue keeps;
                 \* history: runs of the body, subs and ctxs it created
    caller,      \* per concurrent caller: pc, op, ctx (the context its
                 \* function got), ret (what its call returned), decoded
    base,        \* webapp.New / Base.Shutdown: pc; opts, the options given
                 \* so far ("nil" | "ok" | "fail"); applied, the indices of
                 \* the options called; err; setup, server.With was called;
                 \* steps and results of Shutdown; ret, retErr;
                 \* server, the state of base.server; health, what the
                 \* last CheckHealth returned, healthAt, the server's
                 \* state it was called in
    \* history
    causeWrites, \* how often the cause of g.ctx was written
    sigOrder,    \* "none" | "first" | "late": a watched signal was caught,
                 \* first before / after a function had returned an error
    sigCancel,   \* a watched signal cancelled g.ctx while functions ran
    firstErr,    \* the first non-nil error a function returned
    completion   \* ctxgroup, Shutdown: the submitted functions in order of
                 \* completion (Shutdown: with a 0 where the timeout elapsed)

subVars == <<initDone, watched, subscribed, nctxDone>>
causeVars == <<ctxDone, ctxCause, causeWrites>>
ctxVars == <<subVars, causeVars>>
envVars == <<parentDone, sigCh, sigOrder, sigCancel>>
fnVars == <<fn, errs, firstErr, completion>>
callVars == <<callerPc, waitResults, bg>>
cfgVars == <<kind, ctor, parentKind, sigArg>>
\* the state of one group and its environment
groupVars == <<envVars, fnVars, callVars, timer>>
\* the state outside the groups
appVars == <<once, caller, base>>
vars == <<cfgVars, ctxVars, groupVars, appVars>>

\* ------------------------------------------------------------- helpers
Submitted == {t \in Tasks : fn[t].st # "idle"}
Running == {t \in Tasks : fn[t].st \in {"running", "returned"}}
\* the counter of the errgroup's sync.WaitGroup
wgCount == Cardinality(Running)

IdleFn ==
    [st |-> "idle", beh |-> "ok", ret |-> Nil, late |-> FALSE, runs |-> 0,
     ctx |-> "none"]

IdleCaller ==
    [pc |-> "idle", op |-> "none", ctx |-> 0, ret |-> Nil, decoded |-> FALSE]

\* g.cancel != nil in contextgroup
hasCancel == kind = "contextgroup" /\ ctor = "WithNotifyContext"

\* ------------------------------------------------------------- contexts
\* Mutant: every cancel records its cause, the last one wins.
SetCause_lastWins(cause) ==
    /\ ctxDone' = TRUE
    /\ ctxCause' = IF cause = Nil THEN Canceled ELSE cause
    /\ causeWrites' = causeWrites + 1

\* A cancel of g.ctx with the given cause: the first cancel records its
\* cause (context.Canceled when the cause is nil), every later one is a no-op.
SetCause(cause) ==
    /\ ctxDone' = TRUE
    /\ ctxCause' = IF ctxDone THEN ctxCause
                   ELSE IF cause = Nil THEN Canceled ELSE cause
    /\ causeWrites' = IF ctxDone THEN causeWrites ELSE causeWrites + 1

\* The stop function of signal.NotifyContext: cancels the NotifyContext
\* (and with it the contexts derived from it) and unregisters the signals.
stopNotify ==
    /\ nctxDone' = TRUE
    /\ subscribed' = FALSE
    /\ SetCause(Canceled)
    /\ UNCHANGED <<initDone, watched>>

\* Mutant: with no signals given every signal is watched.
signalsOrDefault_all(signals) ==
    IF signals = NilSignals THEN Signals ELSE signals

\* The signals a group watches: SIGINT and SIGTERM when none are given.
signalsOrDefault(signals) ==
    IF signals = NilSignals THEN {SIGINT, SIGTERM} ELSE signals

\* Mutant: a derived context starts live whatever its parent's state.
derived_fresh(pDone) ==
    [ctxDone |-> FALSE, ctxCause |-> Nil, causeWrites |-> 0]

\* The state of a context (and of what derives from it) made from a parent.
derived(pDone) ==
    [ctxDone |-> pDone,
     ctxCause |-> IF pDone THEN Canceled ELSE Nil,
     causeWrites |-> IF pDone THEN 1 ELSE 0]

\* The body of rungroup's initOnce: signal.NotifyContext over the parent,
\* errgroup.WithContext over that.
rungroup_initState(pDone, signals) ==
    [initDone |-> TRUE,
     watched |-> signalsOrDefault(signals),
     subscribed |-> TRUE,
     nctxDone |-> pDone] @@ derived(pDone)

\* A group that was declared and not initialised.
zeroState ==
    [initDone |-> FALSE, watched |-> {}, subscribed |-> FALSE,
     nctxDone |-> FALSE] @@ derived(FALSE)

\* ctxgroup.New and the zero value: the context is the parent (or Background).
ctxgroup_New(pDone) ==
    [initDone |-> TRUE, watched |-> {}, subscribed |-> FALSE,
     nctxDone |-> FALSE] @@ derived(pDone)

\* contextgroup.New: the context is the parent, no cancel function.
contextgroup_New(pDone) ==
    [initDone |-> FALSE, watched |-> {}, subscribed |-> FALSE,
     nctxDone |-> FALSE] @@ derived(pDone)

\* contextgroup.WithNotifyContext: g.ctx is the NotifyContext, g.cancel its stop.
contextgroup_WithNotifyContext(pDone, signals) ==
    [initDone |-> FALSE,
     watched |-> signalsOrDefault(signals),
     subscribed |-> TRUE,
     nctxDone |-> pDone] @@ derived(pDone)

\* waitgroup.WithNotifyContext: errgroup.WithContext over the NotifyContext,
\* g.cancel is the stop function of the NotifyContext.
waitgroup_WithNotifyContext(pDone, signals) ==
    [initDone |-> FALSE,
     watched |-> signalsOrDefault(signals),
     subscribed |-> TRUE,
     nctxDone |-> pDone] @@ derived(pDone)

\* waitgroup.WithTimeout: a plain errgroup, g.ctx is context.WithTimeout of
\* the parent, g.cancel its cancel function.
waitgroup_WithTimeout(pDone) ==
    [initDone |-> FALSE, watched |-> {}, subscribed |-> FALSE,
     nctxDone |-> FALSE] @@ derived(pDone)

\* Shutdown: the targets get the caller's context; ShutdownTimeout: they get
\* context.WithTimeout(ctx, timeout) of it.
Shutdown_ctx(pDone) ==
    [initDone |-> TRUE, watched |-> {}, subscribed |-> FALSE,
     nctxDone |-> FALSE] @@ derived(pDone)

Constructed(k, c, pDone, signals) ==
    CASE k = "rungroup" /\ c = "New" -> rungroup_initState(pDone, signals)
      [] k = "firstUse" /\ c = "rungroup.New" ->
            rungroup_initState(pDone, signals)
      [] k = "waitgroup" /\ c = "WithTimeout" -> waitgroup_WithTimeout(pDone)
      [] k = "waitgroup" -> waitgroup_WithNotifyContext(pDone, signals)
      [] k = "shutdown" -> Shutdown_ctx(pDone)
      [] k = "ctxgroup" -> ctxgroup_New(pDone)
      [] k = "contextgroup" /\ c = "New" -> contextgroup_New(pDone)
      [] k = "contextgroup" /\ c = "WithNotifyContext" ->
            contextgroup_WithNotifyContext(pDone, signals)
      [] OTHER -> zeroState

\* The values that are used as declared, without a constructor call.
ZeroValues ==
    {"zero", "rungroup.Group", "contextgroup.Group", "loadOnce",
     "webapp.New", "Base.Shutdown", "Base.CheckHealth"}

Constructors(k) ==
    CASE k = "contextgroup" -> {"zero", "New", "WithNotifyContext"}
      [] k = "waitgroup" -> {"WithNotifyContext", "WithTimeout"}
      [] k = "shutdown" -> {"Shutdown", "ShutdownTimeout"}
      [] k = "firstUse" ->
            {"rungroup.Group", "contextgroup.Group", "rungroup.New"}
      [] k = "autoenv" -> {"loadOnce"}
      [] k = "base" -> {"webapp.New", "Base.Shutdown", "Base.CheckHealth"}
      [] OTHER -> {"zero", "New"}

\* The signal lists the constructors are called with: none, or (rungroup.New
\* before concurrent callers, contextgroup.WithNotifyContext; with a parent
\* that cannot be cancelled) SIGUNUSED alone.
SignalArgs(k, c, pKind) ==
    IF ((k = "contextgroup" /\ c = "WithNotifyContext") \/ c = "rungroup.New")
       /\ pKind = "background"
    THEN {NilSignals, {SIGUNUSED}} ELSE {NilSignals}

Init ==
    /\ kind \in {"rungroup", "ctxgroup", "contextgroup", "waitgroup",
                 "shutdown", "firstUse", "autoenv", "base"}
    /\ ctor \in Constructors(kind)
    /\ parentKind \in IF ctor \in ZeroValues THEN {"background"}
                      ELSE IF kind = "ctxgroup"
                      THEN {"nil", "background", "cancellable", "cancelled"}
                      ELSE {"background", "cancellable", "cancelled"}
    /\ parentDone = (parentKind = "cancelled")
    /\ \E signals \in SignalArgs(kind, ctor, parentKind) :
         LET s == Constructed(kind, ctor, parentDone, signals) IN
         /\ sigArg = signals
         /\ initDone = s.initDone
         /\ watched = s.watched
         /\ subscribed = s.subscribed
         /\ nctxDone = s.nctxDone
         /\ ctxDone = s.ctxDone
         /\ ctxCause = s.ctxCause
         /\ causeWrites = s.causeWrites
    /\ sigCh = FALSE
    /\ sigOrder = "none"
    /\ sigCancel = FALSE
    /\ fn = [t \in Tasks |-> IdleFn]
    /\ errs = <<>>
    /\ firstErr = Nil
    /\ completion = <<>>
    /\ callerPc = "idle"
    /\ waitResults = <<>>
    /\ bg = [k \in 1..MaxWaits |-> "none"]
    /\ timer = IF ctor \in {"ShutdownTimeout", "WithTimeout"} /\ ~parentDone
               THEN "armed" ELSE "none"
    /\ once = LET n == IF ctor = "rungroup.New" THEN 1 ELSE 0 IN
              [mu |-> 0, val |-> Nil, runs |-> n, subs |-> n, ctxs |-> n]
    /\ caller = [c \in Callers |-> IdleCaller]
    /\ base = [pc |-> CASE ctor = "webapp.New" -> "opts"
                         [] ctor = "Base.Shutdown" -> "server"
                         [] OTHER -> "none",
               opts |-> <<>>, applied |-> <<>>, err |-> Nil, setup |-> FALSE,
               steps |-> <<>>, results |-> <<>>,
               ret |-> "none", retErr |-> Nil,
               server |-> "StateUnstarted",
               health |-> "none", healthAt |-> "none"]

\* ------------------------------------------------------------- environment
\* The operating system delivers signal s to the process: it reaches the
\* channel of the NotifyContext when s is watched and still registered.
DeliverSignal(s) ==
    /\ s \in Signals
    /\ LET caught == subscribed /\ s \in watched IN
       /\ sigCh' = (sigCh \/ (caught /\ ~nctxDone))
       /\ sigOrder' = IF caught /\ sigOrder = "none"
                      THEN (IF firstErr = Nil THEN "first" ELSE "late")
                      ELSE sigOrder
    /\ UNCHANGED <<cfgVars, appVars, timer, ctxVars, parentDone, sigCancel, fnVars,
                   callVars>>

\* Mutant: the signal is only acted on while a call of Wait is in progress.
NotifyContext_goroutine_inWait ==
    /\ sigCh
    /\ ~nctxDone
    /\ callerPc = "waiting"
    /\ nctxDone' = TRUE
    /\ sigCh' = FALSE
    /\ SetCause(Canceled)
    /\ sigCancel' = (~ctxDone /\ wgCount > 0)
    /\ UNCHANGED <<cfgVars, appVars, timer, initDone, watched, subscribed, parentDone,
                   sigOrder, fnVars, callVars>>

\* Mutant: the goroutine also unregisters the signals when it cancels.
NotifyContext_goroutine_unregister ==
    /\ sigCh
    /\ ~nctxDone
    /\ nctxDone' = TRUE
    /\ subscribed' = FALSE
    /\ sigCh' = FALSE
    /\ SetCause(Canceled)
    /\ sigCancel' = (~ctxDone /\ wgCount > 0)
    /\ UNCHANGED <<cfgVars, appVars, timer, initDone, watched, parentDone,
                   sigOrder, fnVars, callVars>>

\* The goroutine of signal.NotifyContext receives the signal and cancels.
NotifyContext_goroutine ==
    /\ sigCh
    /\ ~nctxDone
    /\ nctxDone' = TRUE
    /\ sigCh' = FALSE
    /\ SetCause(Canceled)
    /\ sigCancel' = (~ctxDone /\ wgCount > 0)
    /\ UNCHANGED <<cfgVars, appVars, timer, initDone, watched, subscribed, parentDone,
                   sigOrder, fnVars, callVars>>

\* The owner of the parent context cancels it; the cancellation reaches
\* every context derived from it.
CancelParent ==
    /\ parentKind = "cancellable"
    /\ ~parentDone
    /\ parentDone' = TRUE
    /\ nctxDone' = (nctxDone \/ watched # {})
    /\ SetCause(Canceled)
    /\ timer' = IF timer = "armed" THEN "stopped" ELSE timer
    /\ UNCHANGED <<cfgVars, appVars, initDone, watched, subscribed, sigCh, sigOrder,
                   sigCancel, fnVars, callVars>>

\* ------------------------------------------------------------- functions
\* A function that waits for ctx.Done() can return once the context is done.
FnCanReturn(t) ==
    /\ fn[t].st = "running"
    /\ (fn[t].beh \in {"ok", "fail"} \/ ctxDone)

\* ctx.Err() of the done context handed to the functions: the deadline's
\* error when the timer of context.WithTimeout cancelled it.
ctxErr == IF timer = "fired" THEN DeadlineExceeded ELSE Canceled

FnResult(t) ==
    CASE fn[t].beh = "ok" -> Nil
      [] fn[t].beh = "fail" -> TaskErr(t)
      [] OTHER -> ctxErr

\* The next function to submit; functions are numbered in order of submission.
NextTask == Cardinality(Submitted) + 1

\* The field ctx of a ctxgroup.Group: nil in the zero value, otherwise what
\* New was given (nil, context.Background() or the caller's context).
ctxgroup_ctx ==
    CASE ctor = "zero" -> "nil"
      [] parentKind = "nil" -> "nil"
      [] parentKind = "background" -> "Background"
      [] OTHER -> "parent"

\* Mutant: g.ctx is handed out as it is.
ctxgroup_context_raw == ctxgroup_ctx

\* Group.context: context.Background() when g.ctx is nil.
ctxgroup_context ==
    IF ctxgroup_ctx = "nil" THEN "Background" ELSE ctxgroup_ctx

\* The context a function is called with: g.context() in ctxgroup, the
\* group's own context g.ctx elsewhere.
FnCtx == IF kind = "ctxgroup" THEN ctxgroup_context ELSE "g.ctx"

Start(t, b) ==
    fn' = [fn EXCEPT ![t] = [st |-> "running", beh |-> b, ret |-> Nil,
                             late |-> Len(waitResults) > 0,
                             runs |-> fn[t].runs + 1,
                             ctx |-> FnCtx]]

\* history of a function's return with result r
NoteReturn(r) ==
    firstErr' = IF firstErr = Nil THEN r ELSE firstErr

\* ------------------------------------------------------------- rungroup
\* g.init(nil, nil): the body runs once; a group made by New is initialised.
rungroup_init ==
    IF initDone THEN UNCHANGED ctxVars
    ELSE LET s == rungroup_initState(FALSE, NilSignals) IN
         /\ initDone' = s.initDone
         /\ watched' = s.watched
         /\ subscribed' = s.subscribed
         /\ nctxDone' = s.nctxDone
         /\ ctxDone' = s.ctxDone
         /\ ctxCause' = s.ctxCause
         /\ causeWrites' = s.causeWrites

\* Mutant: a function submitted after Wait has returned is dropped.
rungroup_Go_drop(b) ==
    /\ kind = "rungroup"
    /\ callerPc = "idle"
    /\ NextTask \in Tasks
    /\ rungroup_init
    /\ IF Len(waitResults) > 0 THEN UNCHANGED fn ELSE Start(NextTask, b)
    /\ UNCHANGED <<cfgVars, appVars, timer, envVars, errs, firstErr, completion, callVars>>

\* Group.Go: the function is started in a new goroutine of the errgroup.
rungroup_Go(b) ==
    /\ kind = "rungroup"
    /\ callerPc = "idle"
    /\ NextTask \in Tasks
    /\ rungroup_init
    /\ Start(NextTask, b)
    /\ UNCHANGED <<cfgVars, appVars, timer, envVars, errs, firstErr, completion,
                   callVars>>

\* Mutant: the error is collected, the context is cancelled without a cause
\* (check, then act: the cause is written afterwards, unless one is recorded).
rungroup_fn_twoStep(t) ==
    /\ kind = "rungroup"
    /\ FnCanReturn(t)
    /\ LET r == FnResult(t) IN
       /\ fn' = [fn EXCEPT ![t].st = "done", ![t].ret = r]
       /\ errs' = IF r # Nil THEN Append(errs, r) ELSE errs
       /\ IF r # Nil
          THEN /\ ctxDone' = TRUE
               /\ ctxCause' = r
               /\ causeWrites' = causeWrites + 1
          ELSE UNCHANGED causeVars
       /\ NoteReturn(r)
    /\ UNCHANGED <<cfgVars, appVars, timer, subVars, envVars, completion, callVars>>

\* The goroutine of the errgroup (made by errgroup.WithContext): fn(g.ctx)
\* returns; a non-nil error is collected and cancels g.ctx with that error
\* as its cause; the WaitGroup is released.
rungroup_fn(t) ==
    /\ kind = "rungroup"
    /\ FnCanReturn(t)
    /\ LET r == FnResult(t) IN
       /\ fn' = [fn EXCEPT ![t].st = "done", ![t].ret = r]
       /\ errs' = IF r # Nil THEN Append(errs, r) ELSE errs
       /\ IF r # Nil THEN SetCause(r) ELSE UNCHANGED causeVars
       /\ NoteReturn(r)
    /\ UNCHANGED <<cfgVars, appVars, timer, subVars, envVars, completion, callVars>>

\* Group.Wait up to its blocking receive: init, then the goroutine is started.
rungroup_Wait ==
    /\ kind = "rungroup"
    /\ callerPc = "idle"
    /\ Len(waitResults) < MaxWaits
    /\ rungroup_init
    /\ callerPc' = "waiting"
    /\ bg' = [bg EXCEPT ![Len(waitResults) + 1] = "waiting"]
    /\ UNCHANGED <<cfgVars, appVars, timer, envVars, fnVars, waitResults>>

\* Mutant: g.grp.Wait() does not wait for the functions.
rungroup_Wait_grpWait_nowait(k) ==
    /\ kind = "rungroup"
    /\ bg[k] = "waiting"
    /\ SetCause(Join(errs))
    /\ bg' = [bg EXCEPT ![k] = "stop"]
    /\ UNCHANGED <<cfgVars, appVars, timer, subVars, envVars, fnVars, callerPc, waitResults>>

\* The goroutine of Wait: g.grp.Wait() returns once every function has
\* returned and cancels g.ctx with the collected errors as the cause.
rungroup_Wait_grpWait(k) ==
    /\ kind = "rungroup"
    /\ bg[k] = "waiting"
    /\ wgCount = 0
    /\ SetCause(Join(errs))
    /\ bg' = [bg EXCEPT ![k] = "stop"]
    /\ UNCHANGED <<cfgVars, appVars, timer, subVars, envVars, fnVars, callerPc, waitResults>>

\* The goroutine of Wait: the deferred g.stopNotify().
rungroup_Wait_stopNotify(k) ==
    /\ kind = "rungroup"
    /\ bg[k] = "stop"
    /\ stopNotify
    /\ bg' = [bg EXCEPT ![k] = "exited"]
    /\ UNCHANGED <<cfgVars, appVars, timer, envVars, fnVars, callerPc, waitResults>>

\* Mutant: Wait returns g.ctx.Err() instead of the cause.
rungroup_Wait_return_err ==
    /\ kind = "rungroup"
    /\ callerPc = "waiting"
    /\ ctxDone
    /\ waitResults' = Append(waitResults, Canceled)
    /\ callerPc' = "idle"
    /\ UNCHANGED <<cfgVars, appVars, timer, ctxVars, envVars, fnVars, bg>>

\* Mutant: Wait returns only after every function has returned.
rungroup_Wait_return_drained ==
    /\ kind = "rungroup"
    /\ callerPc = "waiting"
    /\ ctxDone
    /\ wgCount = 0
    /\ waitResults' = Append(waitResults, ctxCause)
    /\ callerPc' = "idle"
    /\ UNCHANGED <<cfgVars, appVars, timer, ctxVars, envVars, fnVars, bg>>

\* Group.Wait: <-g.ctx.Done(), then return context.Cause(g.ctx).
rungroup_Wait_return ==
    /\ kind = "rungroup"
    /\ callerPc = "waiting"
    /\ ctxDone
    /\ waitResults' = Append(waitResults, ctxCause)
    /\ callerPc' = "idle"
    /\ UNCHANGED <<cfgVars, appVars, timer, ctxVars, envVars, fnVars, bg>>

\* ------------------------------------------------------------- ctxgroup
\* Group.Go: the function is started with g.context().
ctxgroup_Go(b) ==
    /\ kind = "ctxgroup"
    /\ callerPc = "idle"
    /\ NextTask \in Tasks
    /\ Start(NextTask, b)
    /\ UNCHANGED <<cfgVars, appVars, timer, ctxVars, envVars, errs, firstErr,
                   completion, callVars>>

\* Mutant: the errgroup cancels the group's context on a non-nil error.
ctxgroup_fn_cancel(t) ==
    /\ kind = "ctxgroup"
    /\ FnCanReturn(t)
    /\ LET r == FnResult(t) IN
       /\ fn' = [fn EXCEPT ![t].st = "done", ![t].ret = r]
       /\ errs' = IF r # Nil THEN Append(errs, r) ELSE errs
       /\ IF r # Nil THEN SetCause(r) ELSE UNCHANGED causeVars
       /\ NoteReturn(r)
    /\ completion' = Append(completion, t)
    /\ UNCHANGED <<cfgVars, appVars, timer, subVars, envVars, callVars>>

\* The goroutine of the (zero value) errgroup: a non-nil error is collected.
ctxgroup_fn(t) ==
    /\ kind = "ctxgroup"
    /\ FnCanReturn(t)
    /\ LET r == FnResult(t) IN
       /\ fn' = [fn EXCEPT ![t].st = "done", ![t].ret = r]
       /\ errs' = IF r # Nil THEN Append(errs, r) ELSE errs
       /\ NoteReturn(r)
    /\ completion' = Append(completion, t)
    /\ UNCHANGED <<cfgVars, appVars, timer, ctxVars, envVars, callVars>>

ctxgroup_Wait ==
    /\ kind = "ctxgroup"
    /\ callerPc = "idle"
    /\ Len(waitResults) < MaxWaits
    /\ callerPc' = "waiting"
    /\ UNCHANGED <<cfgVars, appVars, timer, ctxVars, envVars, fnVars, waitResults, bg>>

\* Mutant: Wait returns the first collected error only.
ctxgroup_Wait_return_first ==
    /\ kind = "ctxgroup"
    /\ callerPc = "waiting"
    /\ wgCount = 0
    /\ waitResults' = Append(waitResults, IF errs = <<>> THEN Nil ELSE errs[1])
    /\ callerPc' = "idle"
    /\ UNCHANGED <<cfgVars, appVars, timer, ctxVars, envVars, fnVars, bg>>

\* g.grp.Wait() returns the collected errors once every function returned.
ctxgroup_Wait_return ==
    /\ kind = "ctxgroup"
    /\ callerPc = "waiting"
    /\ wgCount = 0
    /\ waitResults' = Append(waitResults, Join(errs))
    /\ callerPc' = "idle"
    /\ UNCHANGED <<cfgVars, appVars, timer, ctxVars, envVars, fnVars, bg>>

\* ------------------------------------------------------------- contextgroup
\* g.init(): the Once fires; wg and ctx are set only for the zero value.
contextgroup_init == initDone' = TRUE

contextgroup_Go(b) ==
    /\ kind = "contextgroup"
    /\ callerPc = "idle"
    /\ NextTask \in Tasks
    /\ contextgroup_init
    /\ Start(NextTask, b)
    /\ UNCHANGED <<cfgVars, appVars, timer, watched, subscribed, nctxDone, causeVars, envVars,
                   errs, firstErr, completion, callVars>>

\* Mutant: a non-nil error is returned without calling g.cancel().
contextgroup_fn_nocancel(t) ==
    /\ kind = "contextgroup"
    /\ FnCanReturn(t)
    /\ LET r == FnResult(t) IN
       /\ fn' = [fn EXCEPT ![t].st = "returned", ![t].ret = r]
       /\ NoteReturn(r)
    /\ UNCHANGED <<cfgVars, appVars, timer, ctxVars, envVars, errs, completion, callVars>>

\* The function passed to g.wg.Go: fn(g.ctx) returns; with a cancel function
\* a non-nil error calls g.cancel() before it is handed to the errgroup.
contextgroup_fn(t) ==
    /\ kind = "contextgroup"
    /\ FnCanReturn(t)
    /\ LET r == FnResult(t) IN
       /\ fn' = [fn EXCEPT ![t].st = "returned", ![t].ret = r]
       /\ IF hasCancel /\ r # Nil THEN stopNotify
          ELSE UNCHANGED ctxVars
       /\ NoteReturn(r)
    /\ UNCHANGED <<cfgVars, appVars, timer, envVars, errs, completion, callVars>>

\* The goroutine of the errgroup collects the returned error and releases
\* the WaitGroup.
contextgroup_fn_done(t) ==
    /\ kind = "contextgroup"
    /\ fn[t].st = "returned"
    /\ fn' = [fn EXCEPT ![t].st = "done"]
    /\ errs' = IF fn[t].ret # Nil THEN Append(errs, fn[t].ret) ELSE errs
    /\ UNCHANGED <<cfgVars, appVars, timer, ctxVars, envVars, firstErr, completion, callVars>>

contextgroup_Wait ==
    /\ kind = "contextgroup"
    /\ callerPc = "idle"
    /\ Len(waitResults) < MaxWaits
    /\ contextgroup_init
    /\ callerPc' = "waiting"
    /\ UNCHANGED <<cfgVars, appVars, timer, watched, subscribed, nctxDone, causeVars, envVars,
                   fnVars, waitResults, bg>>

\* Mutant: Wait hands the collected errors out and forgets them.
contextgroup_Wait_return_reset ==
    /\ kind = "contextgroup"
    /\ callerPc = "waiting"
    /\ wgCount = 0
    /\ waitResults' = Append(waitResults, Join(errs))
    /\ errs' = <<>>
    /\ callerPc' = "idle"
    /\ IF hasCancel THEN stopNotify ELSE UNCHANGED ctxVars
    /\ UNCHANGED <<cfgVars, appVars, timer, envVars, fn, firstErr, completion, bg>>

\* Mutant: the deferred g.cancel() is missing.
contextgroup_Wait_return_nostop ==
    /\ kind = "contextgroup"
    /\ callerPc = "waiting"
    /\ wgCount = 0
    /\ waitResults' = Append(waitResults, Join(errs))
    /\ callerPc' = "idle"
    /\ UNCHANGED <<cfgVars, appVars, timer, ctxVars, envVars, fnVars, bg>>

\* g.wg.Wait() returns once every function returned; the deferred g.cancel()
\* runs when there is a cancel function.
contextgroup_Wait_return ==
    /\ kind = "contextgroup"
    /\ callerPc = "waiting"
    /\ wgCount = 0
    /\ waitResults' = Append(waitResults, Join(errs))
    /\ callerPc' = "idle"
    /\ IF hasCancel THEN stopNotify ELSE UNCHANGED ctxVars
    /\ UNCHANGED <<cfgVars, appVars, timer, envVars, fnVars, bg>>

\* ------------------------------------------------------------- waitgroup
\* g.init(): the Once fires; a group made by WithNotifyContext has wg and ctx.
waitgroup_init == initDone' = TRUE

\* Group.Go: the function is started in a new goroutine of the errgroup.
waitgroup_Go(b) ==
    /\ kind = "waitgroup"
    /\ callerPc = "idle"
    /\ NextTask \in Tasks
    /\ waitgroup_init
    /\ Start(NextTask, b)
    /\ UNCHANGED <<cfgVars, appVars, timer, watched, subscribed, nctxDone, causeVars,
                   envVars, errs, firstErr, completion, callVars>>

\* The goroutine of the errgroup (x/sync): fn(g.ctx) returns; the first
\* non-nil error is kept, later errors are dropped. The errgroup made by
\* errgroup.WithContext (WithNotifyContext) cancels g.ctx with that error
\* as its cause, the plain errgroup of WithTimeout cancels nothing.
waitgroup_fn(t) ==
    /\ kind = "waitgroup"
    /\ FnCanReturn(t)
    /\ LET r == FnResult(t) IN
       /\ fn' = [fn EXCEPT ![t].st = "done", ![t].ret = r]
       /\ errs' = IF r # Nil /\ errs = <<>> THEN <<r>> ELSE errs
       /\ IF r # Nil /\ errs = <<>> /\ ctor = "WithNotifyContext"
          THEN SetCause(r) ELSE UNCHANGED causeVars
       /\ NoteReturn(r)
    /\ UNCHANGED <<cfgVars, appVars, timer, subVars, envVars, completion, callVars>>

waitgroup_Wait ==
    /\ kind = "waitgroup"
    /\ callerPc = "idle"
    /\ Len(waitResults) < MaxWaits
    /\ waitgroup_init
    /\ callerPc' = "waiting"
    /\ UNCHANGED <<cfgVars, appVars, timer, watched, subscribed, nctxDone, causeVars,
                   envVars, fnVars, waitResults, bg>>

\* Mutant: Wait of a WithTimeout group returns without calling g.cancel.
waitgroup_Wait_return_nocancel ==
    /\ kind = "waitgroup"
    /\ callerPc = "waiting"
    /\ wgCount = 0
    /\ waitResults' = Append(waitResults, Join(errs))
    /\ callerPc' = "idle"
    /\ IF ctor = "WithNotifyContext"
       THEN /\ nctxDone' = TRUE
            /\ subscribed' = FALSE
            /\ SetCause(Join(errs))
            /\ UNCHANGED timer
       ELSE UNCHANGED <<nctxDone, subscribed, causeVars, timer>>
    /\ UNCHANGED <<cfgVars, appVars, initDone, watched, envVars, fnVars, bg>>

\* g.wg.Wait() returns the kept error once every function returned. With
\* WithNotifyContext it cancels g.ctx with that error and the deferred
\* g.cancel() stops the NotifyContext; with WithTimeout the deferred
\* g.cancel() cancels the timeout context and stops its timer.
waitgroup_Wait_return ==
    /\ kind = "waitgroup"
    /\ callerPc = "waiting"
    /\ wgCount = 0
    /\ waitResults' = Append(waitResults, Join(errs))
    /\ callerPc' = "idle"
    /\ IF ctor = "WithNotifyContext"
       THEN /\ nctxDone' = TRUE
            /\ subscribed' = FALSE
            /\ SetCause(Join(errs))
            /\ UNCHANGED timer
       ELSE /\ SetCause(Canceled)
            /\ timer' = IF timer = "armed" THEN "stopped" ELSE timer
            /\ UNCHANGED <<nctxDone, subscribed>>
    /\ UNCHANGED <<cfgVars, appVars, initDone, watched, envVars, fnVars, bg>>

\* ------------------------------------------------------------- Shutdown
\* Mutant: a target is skipped once the context is done or a target failed.
Shutdown_Go_skip(b) ==
    /\ kind = "shutdown"
    /\ callerPc = "idle"
    /\ waitResults = <<>>
    /\ NextTask \in Tasks
    /\ IF ctxDone \/ errs # <<>>
       THEN fn' = [fn EXCEPT ![NextTask].st = "done", ![NextTask].beh = b]
       ELSE Start(NextTask, b)
    /\ UNCHANGED <<cfgVars, appVars, timer, ctxVars, envVars, errs, firstErr,
                   completion, callVars>>

\* The loop of Shutdown: the next target is started with the context.
Shutdown_Go(b) ==
    /\ kind = "shutdown"
    /\ callerPc = "idle"
    /\ waitResults = <<>>
    /\ NextTask \in Tasks
    /\ Start(NextTask, b)
    /\ UNCHANGED <<cfgVars, appVars, timer, ctxVars, envVars, errs, firstErr,
                   completion, callVars>>

\* The goroutine of the errgroup: targets[i](ctx) returns, a non-nil error
\* is collected.
Shutdown_target(t) ==
    /\ kind = "shutdown"
    /\ FnCanReturn(t)
    /\ LET r == FnResult(t) IN
       /\ fn' = [fn EXCEPT ![t].st = "done", ![t].ret = r]
       /\ errs' = IF r # Nil THEN Append(errs, r) ELSE errs
       /\ NoteReturn(r)
    /\ completion' = Append(completion, t)
    /\ UNCHANGED <<cfgVars, appVars, timer, ctxVars, envVars, callVars>>

\* The loop is over, Shutdown calls Wait of its group.
Shutdown_Wait ==
    /\ kind = "shutdown"
    /\ callerPc = "idle"
    /\ waitResults = <<>>
    /\ callerPc' = "waiting"
    /\ UNCHANGED <<cfgVars, appVars, timer, ctxVars, envVars, fnVars, waitResults, bg>>

\* Mutant: Shutdown returns the context's error when the context is done.
Shutdown_return_ctxErr ==
    /\ kind = "shutdown"
    /\ callerPc = "waiting"
    /\ wgCount = 0
    /\ waitResults' = Append(waitResults,
            Wrap(IF ctxDone THEN ctxErr ELSE Join(errs), ErrDuringShutdown))
    /\ callerPc' = "idle"
    /\ IF ctor = "ShutdownTimeout"
       THEN /\ SetCause(Canceled)
            /\ timer' = IF timer = "armed" THEN "stopped" ELSE timer
       ELSE UNCHANGED <<causeVars, timer>>
    /\ UNCHANGED <<cfgVars, appVars, subVars, envVars, fnVars, bg>>

\* Wait returns once every target returned; Shutdown wraps its result with
\* ErrDuringShutdown; in ShutdownTimeout the deferred cancelFn() then cancels
\* the context and stops its timer.
Shutdown_return ==
    /\ kind = "shutdown"
    /\ callerPc = "waiting"
    /\ wgCount = 0
    /\ waitResults' = Append(waitResults, Wrap(Join(errs), ErrDuringShutdown))
    /\ callerPc' = "idle"
    /\ IF ctor = "ShutdownTimeout"
       THEN /\ SetCause(Canceled)
            /\ timer' = IF timer = "armed" THEN "stopped" ELSE timer
       ELSE UNCHANGED <<causeVars, timer>>
    /\ UNCHANGED <<cfgVars, appVars, subVars, envVars, fnVars, bg>>

\* The timeout of context.WithTimeout elapses: the context is done with
\* context.DeadlineExceeded.
Timeout_elapses ==
    /\ timer = "armed"
    /\ timer' = "fired"
    /\ SetCause(DeadlineExceeded)
    /\ completion' = Append(completion, 0)
    /\ UNCHANGED <<cfgVars, appVars, subVars, envVars, fn, errs, firstErr, callVars>>

\* ------------------------------------------------------------- sync.Once
\* The operations that go through a sync.Once: Go and Wait of a zero-value
\* group (g.init), Unmarshal of autoenv (loadOnce).
OnceOps == IF kind = "firstUse" THEN {"Go", "Wait"} ELSE {"Unmarshal"}

\* Once.Do: the body is skipped when done is set, otherwise doSlow is entered.
Once_Do(c, op) ==
    /\ kind \in {"firstUse", "autoenv"}
    /\ op \in OnceOps
    /\ caller[c].pc = "idle"
    /\ caller' = [caller EXCEPT ![c].op = op,
                                ![c].pc = IF initDone THEN "after" ELSE "lock"]
    /\ UNCHANGED <<cfgVars, ctxVars, groupVars, base, once>>

\* Mutant: doSlow does not look at done again under the mutex.
Once_doSlow_nocheck(c) ==
    /\ caller[c].pc = "lock"
    /\ once.mu = 0
    /\ once' = [once EXCEPT !.mu = c]
    /\ caller' = [caller EXCEPT ![c].pc = "body1"]
    /\ UNCHANGED <<cfgVars, ctxVars, groupVars, base>>

\* Once.doSlow: the mutex is taken and done is read again under it.
Once_doSlow(c) ==
    /\ caller[c].pc = "lock"
    /\ once.mu = 0
    /\ once' = [once EXCEPT !.mu = c]
    /\ caller' = [caller EXCEPT ![c].pc = IF initDone THEN "unlock" ELSE "body1"]
    /\ UNCHANGED <<cfgVars, ctxVars, groupVars, base>>

\* rungroup's init body, first half: signal.NotifyContext over Background
\* with the default signals.
rungroup_init_NotifyContext(c) ==
    /\ ctor \in {"rungroup.Group", "rungroup.New"}
    /\ caller[c].pc = "body1"
    /\ watched' = signalsOrDefault(NilSignals)
    /\ subscribed' = TRUE
    /\ once' = [once EXCEPT !.runs = @ + 1, !.subs = @ + 1]
    /\ caller' = [caller EXCEPT ![c].pc = "body2"]
    /\ UNCHANGED <<cfgVars, initDone, nctxDone, causeVars, groupVars, base>>

\* rungroup's init body, second half: errgroup.WithContext sets g.grp, g.ctx.
rungroup_init_WithContext(c) ==
    /\ ctor \in {"rungroup.Group", "rungroup.New"}
    /\ caller[c].pc = "body2"
    /\ once' = [once EXCEPT !.ctxs = @ + 1]
    /\ caller' = [caller EXCEPT ![c].pc = "store"]
    /\ UNCHANGED <<cfgVars, ctxVars, groupVars, base>>

\* contextgroup's init body: g.wg is nil in the zero value, so the errgroup
\* is made and g.ctx becomes context.Background().
contextgroup_init_body(c) ==
    /\ ctor = "contextgroup.Group"
    /\ caller[c].pc = "body1"
    /\ once' = [once EXCEPT !.runs = @ + 1, !.ctxs = @ + 1]
    /\ caller' = [caller EXCEPT ![c].pc = "store"]
    /\ UNCHANGED <<cfgVars, ctxVars, groupVars, base>>

\* loadOnce's body: Load runs and its result is kept; it is nil or the
\* error of envfile.Load wrapped with ErrLoadEnvFile.
autoenv_Load(c) ==
    /\ kind = "autoenv"
    /\ caller[c].pc = "body1"
    /\ \E r \in {Nil, Wrap(EnvfileErr, ErrLoadEnvFile)} :
          once' = [once EXCEPT !.runs = @ + 1, !.val = r]
    /\ caller' = [caller EXCEPT ![c].pc = "store"]
    /\ UNCHANGED <<cfgVars, ctxVars, groupVars, base>>

\* Mutant: done is stored only after a body that kept no error.
Once_Store_retry(c) ==
    /\ caller[c].pc = "store"
    /\ initDone' = (once.val = Nil)
    /\ caller' = [caller EXCEPT ![c].pc = "unlock"]
    /\ UNCHANGED <<cfgVars, watched, subscribed, nctxDone, causeVars,
                   groupVars, base, once>>

\* The body has returned: the deferred done.Store(1).
Once_Store(c) ==
    /\ caller[c].pc = "store"
    /\ initDone' = TRUE
    /\ caller' = [caller EXCEPT ![c].pc = "unlock"]
    /\ UNCHANGED <<cfgVars, watched, subscribed, nctxDone, causeVars,
                   groupVars, base, once>>

\* The deferred Unlock of doSlow; Do returns.
Once_Unlock(c) ==
    /\ caller[c].pc = "unlock"
    /\ once' = [once EXCEPT !.mu = 0]
    /\ caller' = [caller EXCEPT ![c].pc = "after"]
    /\ UNCHANGED <<cfgVars, ctxVars, groupVars, base>>

\* After g.init: Go hands g.ctx, as it is now, to its function (context
\* number 0: none was made); Wait goes on to wait.
FirstUse_proceed(c) ==
    /\ kind = "firstUse"
    /\ caller[c].pc = "after"
    /\ caller' = [caller EXCEPT
                     ![c].pc = "done",
                     ![c].ctx = IF caller[c].op = "Go" THEN once.ctxs ELSE 0]
    /\ UNCHANGED <<cfgVars, ctxVars, groupVars, base, once>>

\* Unmarshal after loadOnce(): the kept error is returned, or the
\* environment is decoded and the decoder's result returned.
autoenv_Unmarshal_return(c) ==
    /\ kind = "autoenv"
    /\ caller[c].pc = "after"
    /\ \E r \in IF once.val # Nil THEN {once.val} ELSE {Nil, DecodeErr} :
          caller' = [caller EXCEPT ![c].pc = "done",
                                   ![c].ret = r,
                                   ![c].decoded = (once.val = Nil)]
    /\ UNCHANGED <<cfgVars, ctxVars, groupVars, base, once>>

\* ------------------------------------------------------------- webapp.Base
Options == {"nil", "ok", "fail"}

\* Mutant: once an option has failed the remaining options are not applied.
New_option_stop(o) ==
    /\ ctor = "webapp.New"
    /\ base.pc = "opts"
    /\ Len(base.opts) < MaxOpts
    /\ LET i == Len(base.opts) + 1 IN
       base' = IF o = "nil" \/ base.err # Nil
               THEN [base EXCEPT !.opts = Append(@, o)]
               ELSE [base EXCEPT
                       !.opts = Append(@, o),
                       !.applied = Append(@, i),
                       !.err = errors_Append(@, IF o = "fail" THEN OptErr(i)
                                                ELSE Nil)]
    /\ UNCHANGED <<cfgVars, ctxVars, groupVars, once, caller>>

\* One round of New's loop over opts: a nil option is skipped, any other is
\* called and its error appended to err.
New_option(o) ==
    /\ ctor = "webapp.New"
    /\ base.pc = "opts"
    /\ Len(base.opts) < MaxOpts
    /\ LET i == Len(base.opts) + 1 IN
       base' = IF o = "nil"
               THEN [base EXCEPT !.opts = Append(@, o)]
               ELSE [base EXCEPT
                       !.opts = Append(@, o),
                       !.applied = Append(@, i),
                       !.err = errors_Append(@, IF o = "fail" THEN OptErr(i)
                                                ELSE Nil)]
    /\ UNCHANGED <<cfgVars, ctxVars, groupVars, once, caller>>

\* The loop is over: with an error New returns nil and the error wrapped
\* with ErrApplyOptions, otherwise it goes on to the server's setup.
New_applied ==
    /\ ctor = "webapp.New"
    /\ base.pc = "opts"
    /\ base' = IF base.err # Nil
               THEN [base EXCEPT !.pc = "done", !.ret = "nil",
                                 !.retErr = Wrap(base.err, ErrApplyOptions)]
               ELSE [base EXCEPT !.pc = "setup"]
    /\ UNCHANGED <<cfgVars, ctxVars, groupVars, once, caller>>

\* base.server.With(...): on an error New returns nil and the error wrapped
\* with ErrSetupServer, otherwise the handler is set and base returned.
New_setup ==
    /\ ctor = "webapp.New"
    /\ base.pc = "setup"
    /\ \E r \in {Nil, SetupErr} :
          base' = IF r # Nil
                  THEN [base EXCEPT !.pc = "done", !.setup = TRUE,
                                    !.ret = "nil",
                                    !.retErr = Wrap(r, ErrSetupServer)]
                  ELSE [base EXCEPT !.pc = "done", !.setup = TRUE,
                                    !.ret = "base", !.retErr = Nil]
    /\ UNCHANGED <<cfgVars, ctxVars, groupVars, once, caller>>

\* A step of Base.Shutdown was called and returned r.
Base_step(name, r, next) ==
    base' = [base EXCEPT !.pc = next,
                         !.steps = Append(@, name),
                         !.results = Append(@, r),
                         !.err = errors_Append(@, r)]

\* err := base.server.Shutdown(ctx)
Base_Shutdown_server ==
    /\ ctor = "Base.Shutdown"
    /\ base.pc = "server"
    /\ \E r \in {Nil, ServerShutdownErr} :
          Base_step("server.Shutdown", r, "flush")
    /\ UNCHANGED <<cfgVars, ctxVars, groupVars, once, caller>>

\* Mutant: the telemetry is flushed only when the server shut down cleanly.
Base_Shutdown_ForceFlush_skip ==
    /\ ctor = "Base.Shutdown"
    /\ base.pc = "flush"
    /\ IF base.err # Nil
       THEN base' = [base EXCEPT !.pc = "telem"]
       ELSE \E r \in {Nil, ForceFlushErr} :
               Base_step("telem.ForceFlush", r, "telem")
    /\ UNCHANGED <<cfgVars, ctxVars, groupVars, once, caller>>

\* err = errors.Append(err, base.telem.ForceFlush(ctx))
Base_Shutdown_ForceFlush ==
    /\ ctor = "Base.Shutdown"
    /\ base.pc = "flush"
    /\ \E r \in {Nil, ForceFlushErr} :
          Base_step("telem.ForceFlush", r, "telem")
    /\ UNCHANGED <<cfgVars, ctxVars, groupVars, once, caller>>

\* err = errors.Append(err, base.telem.Shutdown(ctx))
Base_Shutdown_telemetry ==
    /\ ctor = "Base.Shutdown"
    /\ base.pc = "telem"
    /\ \E r \in {Nil, TelemShutdownErr} :
          Base_step("telem.Shutdown", r, "return")
    /\ UNCHANGED <<cfgVars, ctxVars, groupVars, once, caller>>

\* return err
Base_Shutdown_return ==
    /\ ctor = "Base.Shutdown"
    /\ base.pc = "return"
    /\ base' = [base EXCEPT !.pc = "done", !.retErr = base.err]
    /\ UNCHANGED <<cfgVars, ctxVars, groupVars, once, caller>>

\* The states of a serv.Server, and the steps of its life: Run starts it,
\* it fails or is shut down, a shutdown ends in closed.
ServerStates ==
    {"StateUnstarted", "StateStarted", "StateErrored", "StateClosing",
     "StateClosed"}

ServerNext(st) ==
    CASE st = "StateUnstarted" -> {"StateStarted", "StateErrored", "StateClosed"}
      [] st = "StateStarted" -> {"StateErrored", "StateClosing"}
      [] st = "StateClosing" -> {"StateClosed", "StateErrored"}
      [] OTHER -> {}

\* The server moves on in its lifecycle (Run, a failure, Shutdown).
Server_step ==
    /\ ctor = "Base.CheckHealth"
    /\ \E st \in ServerNext(base.server) : base' = [base EXCEPT !.server = st]
    /\ UNCHANGED <<cfgVars, ctxVars, groupVars, once, caller>>

\* Mutant: a server that is closing still counts as healthy.
Base_CheckHealth_closing ==
    /\ ctor = "Base.CheckHealth"
    /\ base' = [base EXCEPT
                   !.healthAt = base.server,
                   !.health = CASE base.server = "StateUnstarted" -> "StatusUnknown"
                                [] base.server \in {"StateStarted", "StateClosing"}
                                      -> "StatusHealthy"
                                [] OTHER -> "StatusUnhealthy"]
    /\ UNCHANGED <<cfgVars, ctxVars, groupVars, once, caller>>

\* Base.CheckHealth: a switch over base.server.State().
Base_CheckHealth ==
    /\ ctor = "Base.CheckHealth"
    /\ base' = [base EXCEPT
                   !.healthAt = base.server,
                   !.health = CASE base.server = "StateUnstarted" -> "StatusUnknown"
                                [] base.server = "StateStarted" -> "StatusHealthy"
                                [] OTHER -> "StatusUnhealthy"]
    /\ UNCHANGED <<cfgVars, ctxVars, groupVars, once, caller>>

\* ------------------------------------------------------------- specification
Next ==
    \/ \E s \in Signals : DeliverSignal(s)
    \/ NotifyContext_goroutine
    \/ CancelParent
    \/ \E b \in Behaviours : rungroup_Go(b)
    \/ \E t \in Tasks : rungroup_fn(t)
    \/ rungroup_Wait
    \/ \E k \in 1..MaxWaits : rungroup_Wait_grpWait(k)
    \/ \E k \in 1..MaxWaits : rungroup_Wait_stopNotify(k)
    \/ rungroup_Wait_return
    \/ \E b \in Behaviours : ctxgroup_Go(b)
    \/ \E t \in Tasks : ctxgroup_fn(t)
    \/ ctxgroup_Wait
    \/ ctxgroup_Wait_return
    \/ \E b \in Behaviours : contextgroup_Go(b)
    \/ \E t \in Tasks : contextgroup_fn(t)
    \/ \E t \in Tasks : contextgroup_fn_done(t)
    \/ contextgroup_Wait
    \/ contextgroup_Wait_return
    \/ \E b \in Behaviours : waitgroup_Go(b)
    \/ \E t \in Tasks : waitgroup_fn(t)
    \/ waitgroup_Wait
    \/ waitgroup_Wait_return
    \/ \E b \in Behaviours : Shutdown_Go(b)
    \/ \E t \in Tasks : Shutdown_target(t)
    \/ Shutdown_Wait
    \/ Shutdown_return
    \/ Timeout_elapses
    \/ \E c \in Callers : \E op \in {"Go", "Wait", "Unmarshal"} : Once_Do(c, op)
    \/ \E c \in Callers : Once_doSlow(c)
    \/ \E c \in Callers : rungroup_init_NotifyContext(c)
    \/ \E c \in Callers : rungroup_init_WithContext(c)
    \/ \E c \in Callers : contextgroup_init_body(c)
    \/ \E c \in Callers : Once_Store(c)
    \/ \E c \in Callers : Once_Unlock(c)
    \/ \E c \in Callers : FirstUse_proceed(c)
    \/ \E c \in Callers : autoenv_Load(c)
    \/ \E c \in Callers : autoenv_Unmarshal_return(c)
    \/ \E o \in Options : New_option(o)
    \/ New_applied
    \/ New_setup
    \/ Base_Shutdown_server
    \/ Base_Shutdown_ForceFlush
    \/ Base_Shutdown_telemetry
    \/ Base_Shutdown_return
    \/ Server_step
    \/ Base_CheckHealth

Spec == Init /\ [][Next]_vars

\* The steps the Go scheduler takes on its own: a goroutine that can run
\* does run (the goroutine of signal.NotifyContext, the goroutine of
\* rungroup's Wait, a caller of Wait that can return). The functions
\* handed to Go are not among them: whether they return is up to them.
Fairness ==
    /\ WF_vars(NotifyContext_goroutine)
    /\ \A k \in 1..MaxWaits : WF_vars(rungroup_Wait_grpWait(k))
    /\ \A k \in 1..MaxWaits : WF_vars(rungroup_Wait_stopNotify(k))
    /\ WF_vars(rungroup_Wait_return)
    /\ WF_vars(ctxgroup_Wait_return)
    /\ WF_vars(contextgroup_Wait_return)
    /\ WF_vars(waitgroup_Wait_return)

FairSpec == Spec /\ Fairness

\* ------------------------------------------------------------- claims
WaitReturned == Len(waitResults) > 0
\* the functions submitted before the first Wait returned
NonLate == {t \in Submitted : ~fn[t].late}
\* a call of Wait returns in this step
WaitReturns == Len(waitResults') > Len(waitResults)
\* nothing but the group itself has cancelled the context
Undisturbed == firstErr = Nil /\ sigOrder = "none" /\ ~parentDone

\* C1 (as stated): a rungroup.Group's Wait never returns while a function
\* submitted through Go is still executing.
C1_WaitDrains ==
    [][(kind = "rungroup" /\ WaitReturns)
          => \A t \in Tasks : fn[t].st # "running"]_vars

\* C1 (amended): a rungroup.Group's Wait does not return before the group's
\* context is done; it returns with functions still executing when a signal,
\* a function's error or the parent cancelled the context, and only when none
\* of these happened has every submitted function returned when the first
\* Wait returns.
C1_WaitUntilDone ==
    [][(kind = "rungroup" /\ WaitReturns)
          => /\ ctxDone
             /\ (Len(waitResults) = 0 /\ Undisturbed)
                   => \A t \in Tasks : fn[t].st # "running"]_vars

C1_Witness ==
    /\ kind = "rungroup"
    /\ WaitReturned
    /\ \E t \in NonLate : fn[t].st = "running"

\* C2: in a rungroup.Group whose functions were submitted before Wait, where
\* exactly one function returns a non-nil error e and the others return nil,
\* with no watched signal (and no parent cancellation) before e: Wait returns
\* e and context.Cause of the group's context is e.
C2_Scenario ==
    /\ kind = "rungroup"
    /\ WaitReturned
    /\ Submitted # {}
    /\ NonLate = Submitted
    /\ \E t \in Submitted :
         /\ fn[t].beh = "fail"
         /\ fn[t].st = "done"
         /\ \A u \in Submitted \ {t} : fn[u].beh = "ok"
    /\ sigOrder # "first"
    /\ ~parentDone

C3_SignalNotLost ==
    (kind = "rungroup" /\ sigOrder = "first") =>
        /\ ctxDone \/ ENABLED NotifyContext_goroutine
        /\ ctxDone =>
             /\ \A t \in Tasks :
                  fn[t].st = "running" => ENABLED rungroup_fn(t)
             /\ callerPc = "waiting" => ENABLED rungroup_Wait_return
        /\ \A i \in DOMAIN waitResults : waitResults[i] # Nil

\* the signal arrived before Wait was called and released a blocked function
C3_Witness ==
    /\ kind = "rungroup"
    /\ ctor = "New"
    /\ sigOrder = "first"
    /\ bg[1] = "none"
    /\ callerPc = "idle"
    /\ ctxDone
    /\ \E t \in Tasks : fn[t].beh = "waitErr" /\ fn[t].st = "done"

\* C4 (as stated): in a group made by contextgroup.WithNotifyContext, when a
\* function returns a non-nil error e first (before a signal or a parent
\* cancellation), the shared context is cancelled, Wait returns only after
\* every submitted function has returned, Wait's result is e, and the cause
\* recorded on the shared context is e.
C4_FirstErrorIsCause ==
    (/\ kind = "contextgroup"
     /\ ctor = "WithNotifyContext"
     /\ firstErr # Nil
     /\ sigOrder # "first"
     /\ ~parentDone)
    => /\ ctxDone
       /\ ctxCause = firstErr
       /\ WaitReturned =>
            /\ \A t \in NonLate : fn[t].st = "done"
            /\ waitResults[1] = firstErr

\* the errors the functions of seq returned, nil results left out
RECURSIVE ErrorsOf(_)
ErrorsOf(seq) ==
    IF seq = <<>> THEN <<>>
    ELSE (IF fn[Head(seq)].ret # Nil THEN <<fn[Head(seq)].ret>> ELSE <<>>)
         \o ErrorsOf(Tail(seq))

\* C5: the first Wait of a ctxgroup.Group returns only after all N >= 0
\* submitted functions have returned; its result is nil exactly when no
\* function returned a non-nil error, and otherwise combines exactly the
\* non-nil errors returned, in order of completion.
C5_CombinedInCompletionOrder ==
    (kind = "ctxgroup" /\ WaitReturned) =>
        LET before == SelectSeq(completion, LAMBDA t : ~fn[t].late) IN
        /\ \A t \in NonLate : fn[t].st = "done"
        /\ waitResults[1] = Join(ErrorsOf(before))
        /\ waitResults[1] = Nil <=> \A t \in NonLate : fn[t].ret = Nil

\* two functions failed, the one submitted second first
C5_Witness ==
    /\ kind = "ctxgroup"
    /\ WaitReturned
    /\ waitResults[1] = TaskErr(2) \o TaskErr(1)

\* C6 (as stated): Wait on a rungroup.Group on which Go was never called, with
\* no signal delivered and the parent not cancelled, returns nil.
C6_NoTasksNil ==
    (/\ kind = "rungroup"
     /\ WaitReturned
     /\ NonLate = {}
     /\ sigOrder = "none"
     /\ ~parentDone)
    => waitResults[1] = Nil

\* What Wait returns when the functions complete and no signal interferes
\* (the first collected error, context.Canceled when there is none), and what
\* it returns when the signal cancels the context.
NaturalResult == IF errs = <<>> THEN Canceled ELSE errs[1]
SignalResult == Canceled

\* C7: when a watched signal reaches a rungroup.Group (parent not cancelled)
\* while its functions return, Wait can always finish (the context is done and
\* Wait can return, or a step that makes it done can be taken), every result
\* of Wait is the result of natural completion or the signal-cancellation
\* result, and the cause of the context is written exactly once.
C7_SignalRace ==
    (kind = "rungroup" /\ ~parentDone) =>
        /\ (callerPc = "waiting" /\ (sigOrder # "none" \/ wgCount = 0)) =>
              IF ctxDone THEN ENABLED rungroup_Wait_return
              ELSE \/ ENABLED NotifyContext_goroutine
                   \/ \E k \in 1..MaxWaits : ENABLED rungroup_Wait_grpWait(k)
        /\ \A i \in DOMAIN waitResults :
              waitResults[i] \in {NaturalResult, SignalResult}
        /\ causeWrites = (IF ctxDone THEN 1 ELSE 0)

\* the signal was caught right after the last function returned its error:
\* the error stays the cause, and Wait has returned it
C7_Witness ==
    /\ kind = "rungroup"
    /\ ~parentDone
    /\ sigOrder = "late"
    /\ nctxDone
    /\ Submitted # {}
    /\ \A t \in Submitted : fn[t].st = "done"
    /\ WaitReturned
    /\ waitResults[1] = NaturalResult
    /\ waitResults[1] # SignalResult

\* C8: once the context of a rungroup.Group is cancelled its cause never
\* changes: the first of a function's error, a signal, the parent's
\* cancellation and the group's completion sets it (to the error, or to
\* context.Canceled), every later event leaves it and the results of Wait
\* unchanged, and every result of Wait is that cause.
C8_CauseStable ==
    [][kind = "rungroup" =>
         /\ ctxDone => (ctxDone' /\ ctxCause' = ctxCause)
         /\ (~ctxDone /\ ctxDone') =>
               ctxCause' = (IF errs' # errs THEN errs'[Len(errs')]
                            ELSE Canceled)
         /\ SubSeq(waitResults', 1, Len(waitResults)) = waitResults
         /\ \A i \in DOMAIN waitResults' : waitResults'[i] = ctxCause']_vars

\* a function's error came first; the signal and the group's own cancel
\* (completion, stopNotify) came later
C8_Witness ==
    /\ kind = "rungroup"
    /\ ctxCause = TaskErr(1)
    /\ sigOrder = "late"
    /\ parentDone
    /\ bg[1] = "exited"
    /\ WaitReturned

\* C9: a Wait called on a rungroup.Group or contextgroup.Group whose first
\* Wait has returned (for contextgroup: with no Go in between) can return at
\* once, returns what the first call returned, and no submitted function is
\* executed a second time.
C9_WaitAgain ==
    (/\ kind \in {"rungroup", "contextgroup"}
     /\ WaitReturned
     /\ (kind = "contextgroup" => NonLate = Submitted))
    => /\ callerPc = "waiting" =>
            ENABLED (rungroup_Wait_return \/ contextgroup_Wait_return)
       /\ \A i \in DOMAIN waitResults : waitResults[i] = waitResults[1]
       /\ \A t \in Tasks : fn[t].runs <= 1

C9_Witness ==
    /\ kind = "contextgroup"
    /\ Len(waitResults) = 2
    /\ waitResults[1] # Nil
    /\ NonLate = Submitted

\* C10 (as stated): a function handed to Go after the group's Wait has
\* returned is never started (Go signals the misuse instead).
C10_LateGoRefused ==
    kind \in {"rungroup", "contextgroup"} =>
        \A t \in Tasks : fn[t].late => fn[t].st = "idle"

\* C10 (amended): Go on a rungroup.Group or contextgroup.Group whose Wait has
\* returned is not signalled: it returns to the caller and the function is
\* started like any other (it is not dropped); in a rungroup.Group and in a
\* group made by contextgroup.WithNotifyContext the context it receives is
\* already done.
C10_LateGoRuns ==
    kind \in {"rungroup", "contextgroup"} =>
        /\ (WaitReturned /\ callerPc = "idle" /\ NextTask \in Tasks) =>
              \A b \in Behaviours :
                 ENABLED /\ (rungroup_Go(b) \/ contextgroup_Go(b))
                         /\ fn'[NextTask].st = "running"
                         /\ fn'[NextTask].beh = b
                         /\ callerPc' = "idle"
        /\ \A t \in Tasks :
              fn[t].late => /\ fn[t].st # "idle"
                            /\ (kind = "rungroup" \/ hasCancel) => ctxDone

C10_Witness ==
    /\ kind = "rungroup"
    /\ \E t \in Tasks : fn[t].late /\ fn[t].st = "done" /\ fn[t].ret # Nil

\* C11 (as stated): the signal subscription of a rungroup.Group is released
\* no later than the moment Wait's blocking condition is satisfied (the
\* group's context is done and Wait returns), also when some submitted
\* function has not yet returned: once Wait has returned the subscription is
\* released, or the goroutine that releases it can proceed to do so.
C11_ReleasedWhenDone ==
    (kind = "rungroup" /\ WaitReturned) =>
        \/ ~subscribed
        \/ \E k \in 1..MaxWaits :
              \/ ENABLED rungroup_Wait_grpWait(k)
              \/ ENABLED rungroup_Wait_stopNotify(k)

\* the groups made by contextgroup.WithNotifyContext, waitgroup.WithNotifyContext
NotifyGroup == kind \in {"contextgroup", "waitgroup"} /\ ctor = "WithNotifyContext"

\* C12: in a group made by contextgroup.WithNotifyContext or
\* waitgroup.WithNotifyContext, once Wait has returned (on whatever path) the
\* stop function of the signal subscription has been called: the signals are
\* unregistered and the context is done; a watched signal delivered afterwards
\* changes nothing (so neither the group's state nor what a later Wait
\* returns) and the goroutine that cancels on a signal cannot run.
C12_StoppedOnReturn ==
    (NotifyGroup /\ WaitReturned) =>
        /\ ~subscribed
        /\ nctxDone
        /\ ctxDone
        /\ ~ENABLED NotifyContext_goroutine
        /\ \A s \in Signals : ~ENABLED (DeliverSignal(s) /\ vars' # vars)

\* Wait has returned after a signal had cancelled the context, and again
C12_Witness ==
    /\ NotifyGroup
    /\ Len(waitResults) = 2
    /\ sigOrder = "first"
    /\ sigCh
    /\ \E t \in Tasks : fn[t].st = "done" /\ fn[t].beh = "waitErr"

\* the error r contains (is, or combines) the error e
Contains(r, e) == \A j \in DOMAIN e : \E i \in DOMAIN r : r[i] = e[j]

\* the groups bound to signals that C13 is about
SignalBound == kind = "rungroup" \/ hasCancel

\* C13 (as stated): when a watched signal, not a function's error, cancelled
\* the context of a rungroup.Group or of a group made by
\* contextgroup.WithNotifyContext while functions were running, the result of
\* Wait is non-nil (also when every function returns nil), reports the
\* cancellation, and contains every error the functions have reported.
C13_SignalReported ==
    [][(SignalBound /\ sigCancel /\ WaitReturns) =>
          LET r == waitResults'[Len(waitResults')] IN
          /\ r # Nil
          /\ Contains(r, Canceled)
          /\ \A i \in DOMAIN errs : Contains(r, errs[i])]_vars

\* C14 (as stated): ShutdownTimeout does not return before every target has
\* returned or the timeout has elapsed, and once the timeout has elapsed it
\* returns (it can return at once) even if some target has not returned.
C14_ReturnsAtTimeout ==
    (kind = "shutdown" /\ ctor = "ShutdownTimeout") =>
        /\ WaitReturned =>
              (timer = "fired" \/ \A t \in Submitted : fn[t].st = "done")
        /\ (timer = "fired" /\ callerPc = "waiting") => ENABLED Shutdown_return

\* the timeout of ShutdownTimeout elapsed before some target returned
TimedOut ==
    /\ kind = "shutdown"
    /\ ctor = "ShutdownTimeout"
    /\ \E i, j \in DOMAIN completion :
         i < j /\ completion[i] = 0 /\ completion[j] # 0

\* the targets in order of their return
Returned == SelectSeq(completion, LAMBDA t : t # 0)

C16_AllTargetsOnce ==
    kind = "shutdown" =>
        /\ \A t \in Submitted : fn[t].runs = 1
        /\ (callerPc = "idle" /\ waitResults = <<>> /\ NextTask \in Tasks) =>
              \A b \in Behaviours :
                 ENABLED (Shutdown_Go(b) /\ fn'[NextTask].st = "running")
        /\ WaitReturned =>
              /\ \A t \in Submitted : fn[t].st = "done"
              /\ waitResults[1] = Nil <=> \A t \in Submitted : fn[t].ret = Nil
              /\ waitResults[1] =
                    Wrap(Join(ErrorsOf(Returned)), ErrDuringShutdown)
              /\ waitResults[1] # Nil => Head(waitResults[1]) = ErrDuringShutdown

\* the context was cancelled from the start, the first target failed, the
\* second one returned the context's error
C16_Witness ==
    /\ kind = "shutdown"
    /\ ctor = "Shutdown"
    /\ causeWrites = 1
    /\ parentDone
    /\ completion = <<1, 2>>
    /\ waitResults = << <<ErrDuringShutdown>> \o TaskErr(1) \o Canceled >>

\* the groups without cancel-on-error policy
NoCancelGroup ==
    \/ kind = "ctxgroup"
    \/ kind = "contextgroup" /\ ctor \in {"zero", "New"}

\* C17: in a zero-value ctxgroup.Group or contextgroup.Group and in a group
\* made by ctxgroup.New or contextgroup.New the context the functions see is
\* done exactly when the caller's parent context is cancelled (its cause is
\* then the parent's): no function's error and no Go or Wait step of the
\* group makes it done.
C17_NoCancelOnError ==
    NoCancelGroup =>
        /\ ctxDone = parentDone
        /\ ctxCause = (IF parentDone THEN Canceled ELSE Nil)
        /\ ~subscribed

\* a function has failed and Wait has returned its error while the context
\* is not done; a function submitted later still waits for the context
C17_Witness ==
    /\ NoCancelGroup
    /\ ctor = "New"
    /\ firstErr # Nil
    /\ WaitReturned
    /\ waitResults[1] # Nil
    /\ ~ctxDone
    /\ \E t \in Tasks : fn[t].beh = "waitErr" /\ fn[t].st = "running"

\* C18: every function submitted through ctxgroup.Group.Go is called with
\* context.Background() when the group is a zero value or was made by
\* New(nil), and with exactly the context given to New otherwise; all
\* functions of the group get the same context, and none gets a nil one.
C18_SameContext ==
    kind = "ctxgroup" =>
        /\ \A t \in Submitted :
              fn[t].ctx = (IF ctor = "zero" \/ parentKind \in {"nil", "background"}
                           THEN "Background" ELSE "parent")
        /\ \A t, u \in Submitted : fn[t].ctx = fn[u].ctx

\* two functions of a group made by New(nil) have run with Background
C18_Witness ==
    /\ kind = "ctxgroup"
    /\ ctor = "New"
    /\ parentKind = "nil"
    /\ \A t \in Tasks : fn[t].st = "done" /\ fn[t].ctx = "Background"
    /\ WaitReturned

\* the groups C19 is about, made with a parent that is never cancelled
CancelOnErrorGroup ==
    /\ NotifyGroup \/ (kind = "rungroup" /\ ctor = "New")
    /\ parentKind = "background"

\* the functions have all returned and the pending Wait is on its way out
WaitReturning == callerPc = "waiting" /\ wgCount = 0

\* C19: in a group made by contextgroup.WithNotifyContext,
\* waitgroup.WithNotifyContext or rungroup.New, with a parent that is never
\* cancelled, the internal context is done only if a submitted function has
\* returned a non-nil error, a watched signal has arrived, or Wait has
\* returned (or, the functions all done, is returning); and it is done once a
\* function has returned an error or Wait has returned, and done or about to
\* be cancelled once a watched signal has arrived.
C19_DoneOnFirstEvent ==
    CancelOnErrorGroup =>
        /\ ctxDone =>
              (firstErr # Nil \/ sigOrder # "none" \/ WaitReturned
                 \/ WaitReturning)
        /\ (firstErr # Nil \/ WaitReturned) => ctxDone
        /\ sigOrder # "none" => (ctxDone \/ ENABLED NotifyContext_goroutine)

\* a function's error has cancelled the context before Wait was called, while
\* another function runs and no signal has arrived
C19_Witness ==
    /\ CancelOnErrorGroup
    /\ kind = "contextgroup"
    /\ ctxDone
    /\ firstErr # Nil
    /\ sigOrder = "none"
    /\ ~WaitReturned
    /\ callerPc = "idle"
    /\ \E t \in Tasks : fn[t].st = "running"

\* C20 (as stated): when two or more functions of a rungroup.Group have
\* returned non-nil errors by the time Wait returns, the result of Wait
\* contains all of these errors.
C20_AllErrorsReturned ==
    [][(kind = "rungroup" /\ WaitReturns /\ Len(errs) >= 2) =>
          \A i \in DOMAIN errs :
             Contains(waitResults'[Len(waitResults')], errs[i])]_vars

\* C21: for a zero-value rungroup.Group or contextgroup.Group, however the
\* first calls of Go and Wait interleave, the body of init runs exactly once:
\* one context is made (and, in rungroup, one signal subscription), every
\* caller that is past init finds the group initialised, every function gets
\* that one context; and on a group made by rungroup.New the body never runs
\* again, so the group keeps the signals and the parent New gave it.
C21_InitOnce ==
    kind = "firstUse" =>
        /\ once.runs <= 1 /\ once.subs <= 1 /\ once.ctxs <= 1
        /\ \A c \in Callers :
              caller[c].pc \in {"after", "done"} =>
                  /\ initDone
                  /\ once.runs = 1 /\ once.ctxs = 1
                  /\ once.subs = IF ctor = "contextgroup.Group" THEN 0 ELSE 1
                  /\ (caller[c].pc = "done" /\ caller[c].op = "Go") =>
                        caller[c].ctx = 1
        /\ ctor = "rungroup.New" =>
              /\ once.runs = 1 /\ once.subs = 1 /\ once.ctxs = 1
              /\ watched \in {{SIGINT, SIGTERM}, {SIGUNUSED}}
              /\ parentKind # "background" => watched = {SIGINT, SIGTERM}
              /\ parentDone => ctxDone

\* Two first calls are in doSlow together: one has run the body and stored
\* done, the other is about to take the mutex.
C21_Witness ==
    /\ kind = "firstUse"
    /\ \E c, d \in Callers :
          /\ caller[c].pc = "unlock" /\ caller[c].op = "Go"
          /\ caller[d].pc = "lock" /\ caller[d].op = "Wait"
    /\ once.runs = 1
    /\ initDone

\* The groups whose context is a signal.NotifyContext, once it is made.
Watching ==
    \/ kind = "rungroup" /\ initDone
    \/ kind = "firstUse" /\ ctor # "contextgroup.Group" /\ initDone
    \/ hasCancel

\* C22: an initialised rungroup.Group (and a contextgroup.WithNotifyContext
\* group) watches SIGINT and SIGTERM when it was given no signals, which is
\* always so for the zero value, and exactly the listed signals otherwise:
\* a watched signal, delivered while the subscription is held and the
\* NotifyContext is live, reaches the cancelling goroutine, which makes the
\* group's context done; any other signal changes nothing.
C22_WatchedSignals ==
    Watching =>
        LET listed == IF sigArg = {} THEN {SIGINT, SIGTERM} ELSE sigArg IN
        /\ ctor \in ZeroValues => sigArg = {}
        /\ watched = listed
        /\ \A s \in Signals \ listed :
              ~ENABLED (DeliverSignal(s) /\ vars' # vars)
        /\ \A s \in listed :
              (subscribed /\ ~nctxDone) => ENABLED (DeliverSignal(s) /\ sigCh')
        /\ (sigCh /\ ~nctxDone) => ENABLED (NotifyContext_goroutine /\ ctxDone')

\* SIGTERM reached a zero-value rungroup.Group while a function ran, and
\* cancelled its context.
C22_Witness ==
    /\ kind = "rungroup" /\ ctor = "zero"
    /\ sigCancel
    /\ ctxDone /\ ctxCause = Canceled
    /\ watched = {SIGINT, SIGTERM}

\* C23: a group made by rungroup.New over a parent that is done has a done
\* context, from construction on when the parent was done then; Go still
\* starts every function, with the group's context; a waiting Wait can return
\* whatever the functions do; and its result is the parent's cancellation
\* (context.Canceled): always when the parent was done at construction,
\* and when it was cancelled later unless a function error or a signal
\* came first.
C23_ParentCancelled ==
    (kind = "rungroup" /\ ctor = "New" /\ parentDone) =>
        /\ ctxDone
        /\ (callerPc = "idle" /\ NextTask \in Tasks) =>
              \A b \in Behaviours :
                  ENABLED (/\ rungroup_Go(b)
                           /\ fn'[NextTask].st = "running"
                           /\ fn'[NextTask].ctx = "g.ctx")
        /\ callerPc = "waiting" => ENABLED rungroup_Wait_return
        /\ (parentKind = "cancelled" \/ (firstErr = Nil /\ sigOrder = "none")) =>
              /\ ctxCause = Canceled
              /\ \A i \in DOMAIN waitResults : waitResults[i] = Canceled

\* New was given a cancelled parent, a function was submitted and still
\* runs, and Wait has returned context.Canceled.
C23_Witness ==
    /\ kind = "rungroup" /\ ctor = "New" /\ parentKind = "cancelled"
    /\ \E t \in Tasks : fn[t].st = "running" /\ ~fn[t].late
    /\ waitResults = <<Canceled>>

\* C24: over all calls of autoenv.Unmarshal, one after another or together,
\* Load runs at most once, and has run before any call returns; when it
\* returned an error every call returns that error and decodes nothing,
\* otherwise every call decodes.
C24_LoadOnce ==
    kind = "autoenv" =>
        /\ once.runs <= 1
        /\ \A c \in Callers :
              caller[c].pc = "done" =>
                  /\ once.runs = 1
                  /\ once.val # Nil =>
                        (caller[c].ret = once.val /\ ~caller[c].decoded)
                  /\ once.val = Nil => caller[c].decoded

\* Load failed, and two calls of Unmarshal have returned its error.
C24_Witness ==
    /\ kind = "autoenv"
    /\ once.val = Wrap(EnvfileErr, ErrLoadEnvFile)
    /\ \A c \in Callers : caller[c].pc = "done" /\ caller[c].ret = once.val

\* What Run returns after the first Wait of its group has returned.
Run_result == Wrap(waitResults[1], ErrDuringRun)

\* C25 (as stated): Run (rungroup.New, Go for every target, Wait) returns nil
\* when at least one target was given, every target returned nil, no watched
\* signal was delivered and the parent was not cancelled.
C25_RunNil ==
    (/\ kind = "rungroup" /\ ctor = "New"
     /\ WaitReturned
     /\ NonLate # {}
     /\ \A t \in Submitted : fn[t].st = "done" /\ fn[t].ret = Nil
     /\ sigOrder = "none"
     /\ ~parentDone)
    => Run_result = Nil

\* The calls whose context comes from context.WithTimeout.
TimeoutGroup ==
    \/ kind = "shutdown" /\ ctor = "ShutdownTimeout"
    \/ kind = "waitgroup" /\ ctor = "WithTimeout"

\* C26: in ShutdownTimeout and in a waitgroup.WithTimeout group the context
\* of the functions is live as long as the parent is not cancelled, the
\* timeout has not elapsed and the call (ShutdownTimeout, Wait) has not
\* returned; once the timeout has elapsed it is done with
\* context.DeadlineExceeded as its error; after the call has returned it is
\* done and its timer no longer armed.
C26_TimeoutContext ==
    TimeoutGroup =>
        /\ (~parentDone /\ timer # "fired" /\ ~WaitReturned) => ~ctxDone
        /\ timer = "fired" =>
              (ctxDone /\ ctxCause = DeadlineExceeded /\ ctxErr = DeadlineExceeded)
        /\ WaitReturned => (ctxDone /\ timer # "armed")
        /\ timer = "armed" => ~ctxDone

\* The timeout of a WithTimeout group elapsed while a function ran; the
\* function returned the context's error and Wait has returned.
C26_Witness ==
    /\ kind = "waitgroup" /\ ctor = "WithTimeout"
    /\ timer = "fired"
    /\ waitResults = <<DeadlineExceeded>>

\* A call of Wait is blocked; some function that was submitted has not
\* returned.
Waiting == callerPc = "waiting" /\ kind # "shutdown"
Pending == wgCount > 0

\* C27: under fair scheduling, if the submitted functions always return in
\* the end, a blocked Wait of any of the four groups returns; and a blocked
\* rungroup.Wait returns, whether the functions return or not, once a
\* watched signal has reached the process or the context is done (after a
\* function error or the parent's cancellation).
C27_WaitReturns ==
    /\ ([]<>(~Pending)) => (Waiting ~> ~Waiting)
    /\ (kind = "rungroup" /\ Waiting /\ (sigCh \/ ctxDone)) ~> ~Waiting

\* rungroup.Wait has returned after a signal while a function that was
\* submitted before it still runs.
C27_Witness ==
    /\ kind = "rungroup"
    /\ WaitReturned
    /\ sigCancel
    /\ \E t \in Tasks : fn[t].st = "running" /\ ~fn[t].late

\* rungroup: the goroutine of some call of Wait has run g.stopNotify(), which
\* it does after g.grp.Wait() has seen every function return.
rungroup_Released == \E k \in 1..MaxWaits : bg[k] = "exited"

\* The subscription of a rungroup.Group, from its initialisation on (New, or
\* the first Go or Wait of a zero value, also among concurrent first calls).
rungroup_Subscription ==
    /\ (kind = "rungroup" /\ initDone) => (subscribed <=> ~rungroup_Released)
    /\ (kind = "firstUse" /\ ctor # "contextgroup.Group" /\ once.subs > 0) =>
          subscribed

\* C28 (as stated): a signal-bound group holds its signal subscription until
\* Wait releases it: rungroup until Wait's goroutine has seen every function
\* return, contextgroup.WithNotifyContext until Wait returns; no signal, no
\* function error and no cancellation releases it.
C28_ReleasedByWait ==
    /\ rungroup_Subscription
    /\ hasCancel => (subscribed <=> ~WaitReturned)

\* C28 (amended): as stated for rungroup; a contextgroup.WithNotifyContext
\* group holds its subscription until Wait returns or a function returns a
\* non-nil error, whichever is first.
C28_ReleasedByWaitOrError ==
    /\ rungroup_Subscription
    /\ hasCancel =>
          (subscribed <=> (~WaitReturned /\ \A t \in Tasks : fn[t].ret = Nil))

\* A function of a contextgroup.WithNotifyContext group has returned an
\* error, Wait was never called, and the subscription is released.
C28_Witness ==
    /\ hasCancel
    /\ ~subscribed
    /\ callerPc = "idle" /\ ~WaitReturned
    /\ \E t \in Tasks : fn[t].ret = TaskErr(t)

\* The order Base.Shutdown takes its steps in.
ShutdownSteps == <<"server.Shutdown", "telem.ForceFlush", "telem.Shutdown">>

\* C29: Base.Shutdown calls server.Shutdown, telemetry ForceFlush and
\* telemetry Shutdown in that order, each whatever the earlier ones
\* returned; its result is nil exactly when all three returned nil, and
\* otherwise holds the errors of the failing steps in that order.
C29_ShutdownSteps ==
    ctor = "Base.Shutdown" =>
        /\ base.steps = SubSeq(ShutdownSteps, 1, Len(base.steps))
        /\ base.pc = "done" =>
              /\ base.steps = ShutdownSteps
              /\ base.retErr = base.results[1] \o base.results[2] \o base.results[3]
              /\ base.retErr = Nil <=> \A i \in 1..3 : base.results[i] = Nil

\* server.Shutdown failed, the flush succeeded, the telemetry's Shutdown
\* failed, and Shutdown returned both errors.
C29_Witness ==
    /\ ctor = "Base.Shutdown"
    /\ base.pc = "done"
    /\ base.results = <<ServerShutdownErr, Nil, TelemShutdownErr>>
    /\ base.retErr = ServerShutdownErr \o TelemShutdownErr

\* The indices of the options that are not nil, and the errors of the
\* failing options, in the order given.
NonNil(opts) == SelectSeq([i \in 1..Len(opts) |-> i], LAMBDA i : opts[i] # "nil")
RECURSIVE OptErrors(_, _)
OptErrors(opts, i) ==
    IF i > Len(opts) THEN Nil
    ELSE (IF opts[i] = "fail" THEN OptErr(i) ELSE Nil) \o OptErrors(opts, i + 1)

\* C30: webapp.New calls every option that is not nil, in the order given,
\* also after one has failed; when an option failed it returns a nil Base
\* and the errors of all failing options wrapped with ErrApplyOptions, and
\* does not set up the server; when the server's setup fails it returns a
\* nil Base and that error wrapped with ErrSetupServer; otherwise it
\* returns the Base and no error.
C30_Options ==
    ctor = "webapp.New" =>
        /\ base.applied = NonNil(base.opts)
        /\ base.err = OptErrors(base.opts, 1)
        /\ base.pc = "done" =>
              IF \E i \in DOMAIN base.opts : base.opts[i] = "fail"
              THEN /\ base.ret = "nil"
                   /\ base.retErr = <<ErrApplyOptions>> \o OptErrors(base.opts, 1)
                   /\ ~base.setup
              ELSE /\ base.setup
                   /\ \/ base.ret = "nil" /\ base.retErr = <<ErrSetupServer>> \o SetupErr
                      \/ base.ret = "base" /\ base.retErr = Nil

\* The first option failed, the second was still applied and failed too;
\* New returned nil and both errors.
C30_Witness ==
    /\ ctor = "webapp.New"
    /\ base.pc = "done"
    /\ Len(base.opts) >= 2
    /\ base.opts[1] = "fail" /\ base.opts[2] = "fail"
    /\ base.applied = <<1, 2>> \o SubSeq(base.applied, 3, Len(base.applied))
    /\ base.ret = "nil"

\* C31: whatever state the server is in, CheckHealth returns StatusUnknown
\* exactly when that state is Unstarted, StatusHealthy exactly when it is
\* Started and StatusUnhealthy in every other state, and no call of it
\* changes the server's state.
C31_CheckHealth ==
    ctor = "Base.CheckHealth" =>
        /\ base.server \in ServerStates
        /\ ~ENABLED (Base_CheckHealth /\ base'.server # base.server)
        /\ base.health # "none" =>
              /\ base.health = "StatusUnknown" <=> base.healthAt = "StateUnstarted"
              /\ base.health = "StatusHealthy" <=> base.healthAt = "StateStarted"
              /\ base.health = "StatusUnhealthy" <=>
                    base.healthAt \in
                        ServerStates \ {"StateUnstarted", "StateStarted"}

\* CheckHealth was called on a server that is shutting down and returned
\* StatusUnhealthy; the server is still shutting down.
C31_Witness ==
    /\ ctor = "Base.CheckHealth"
    /\ base.server = "StateClosing" /\ base.healthAt = "StateClosing"
    /\ base.health = "StatusUnhealthy"

====
